---- MODULE Spec2Model ----
(***************************************************************************)
(* Golf-city analysis pipeline: the paginated fetcher                      *)
(* (scripts/fetch_teeradar.py), the consolidation of raw pages             *)
(* (scripts/consolidate_data.py) and the per-region metrics, score and     *)
(* rank (eda/compute_city_metrics.py).                                     *)
(*                                                                         *)
(* Each script is a specification of its own over the shared variables:    *)
(*   SpecConsolidate   consolidate_data.main                               *)
(*   SpecMetrics       compute_city_metrics.main                           *)
(*   SpecFetch         fetch_teeradar.fetch_pages, with the fairness of a  *)
(*                     server that eventually answers                      *)
(* The variables of the scripts a specification does not run stay idle.    *)
(***************************************************************************)
EXTENDS Integers, Sequences, FiniteSets, TLC

VARIABLES
    \* ---- consolidate_data.py
    rawDir,      \* the raw directory: page offset -> capture file (or NoFile)
    dedupeKey,   \* --dedupe-key
    requested,   \* which of --out-parquet / --out-ndjson / --sqlite-db are given
    df,          \* the DataFrame of main()
    cpc,         \* position of consolidate_data.main
    \* ---- compute_city_metrics.py
    courses,     \* the consolidated course table read by main()
    columns,     \* the columns of that table
    weights,     \* the weights argument of compute_metrics (metric -> weight)
    reference,   \* the --state-golfable-csv file (or NoReference)
    agg,         \* the table compute_metrics returns
    mpc,         \* position of compute_city_metrics.main
    \* ---- the file system both scripts write to
    fs,          \* path -> "absent" | "old" | "partial" | "new"
    \* ---- fetch_teeradar.py
    start,       \* --offset
    limit,       \* --limit
    max_pages,   \* --max-pages
    backoff,     \* seconds of fetch_pages' latest sleep before a retry (0: none yet)
    offset,      \* fetch_pages' offset
    page,        \* fetch_pages' page
    saved,       \* offsets of the capture files written, in order
    fpc          \* position of fetch_pages

vars == << rawDir, dedupeKey, requested, df, cpc,
           courses, columns, weights, reference, agg, mpc,
           fs, start, limit, max_pages, backoff, offset, page, saved, fpc >>

consolidateVars == << rawDir, dedupeKey, requested, df, cpc >>
metricsVars     == << courses, columns, weights, reference, agg, mpc >>
fetchVars       == << start, limit, max_pages, backoff, offset, page, saved, fpc >>

(***************************************************************************)
(* Values shared by the scripts                                            *)
(***************************************************************************)

\* pandas' missing value (NaN / NaT / None) of a numeric or timestamp cell
NULL == -1

\* the --state-golfable-csv argument when none is given or its path does not
\* exist; otherwise a table with a key column, a flag column and rows (key, flag)
NoReference == [kind |-> "none"]

\* the weights argument when it is None; otherwise a mapping metric -> weight
NoWeights == [kind |-> "none"]

\* permutations of 1..n: the row orders a sort may return
Perms(n) == { p \in [1..n -> 1..n] : \A i, j \in 1..n : p[i] = p[j] => i = j }

RECURSIVE SumSeq(_)
SumSeq(s) == IF s = << >> THEN 0 ELSE Head(s) + SumSeq(Tail(s))

RECURSIVE FlattenSeq(_)
FlattenSeq(ss) == IF ss = << >> THEN << >> ELSE Head(ss) \o FlattenSeq(Tail(ss))

\* the rows of s at the positions idx, in idx's order
Take(s, idx) == [ i \in 1..Len(idx) |-> s[idx[i]] ]

\* the numbers of a finite set of integers, ascending
RECURSIVE Ascending(_)
Ascending(S) ==
    IF S = {} THEN << >>
    ELSE LET m == CHOOSE x \in S : \A y \in S : x <= y
         IN  << m >> \o Ascending(S \ {m})

\* DataFrame.drop_duplicates(subset=key, keep="last"): a row stays when no later
\* row carries the same key (missing keys are equal to each other)
DropDuplicatesLast(rows, key) ==
    LET keep(i) == \A j \in (i + 1)..Len(rows) : rows[j][key] # rows[i][key]
    IN  Take(rows, Ascending({ i \in 1..Len(rows) : keep(i) }))

\* DataFrame.sort_values(by=key), ascending, default kind="quicksort" and
\* na_position="last": the rows in some order with the keys non-decreasing and
\* the missing keys at the end, in their original order (pandas sorts only the
\* keys present); the order among equal keys is not fixed
SortOrders(rows, key) ==
    LET n == Len(rows)
        before(a, b) == IF rows[b][key] = NULL THEN rows[a][key] # NULL \/ a < b
                        ELSE rows[a][key] # NULL /\ rows[a][key] <= rows[b][key]
    IN  { p \in Perms(n) : \A i, j \in 1..n : i < j => before(p[i], p[j]) }

(***************************************************************************)
(* The file system                                                         *)
(***************************************************************************)

\* consolidate_data's outputs and their temporary files, and the two files
\* compute_city_metrics.main writes
Paths == { "out_parquet", "out_parquet.tmp", "out_ndjson", "out_ndjson.tmp",
           "sqlite_db", "output", "csv_out" }

\* the destinations (not the temporary files)
Destinations == { "out_parquet", "out_ndjson", "sqlite_db", "output", "csv_out" }

\* before a run every destination holds its prior version or is absent, and no
\* temporary file is left
FsBefore == { f \in [Paths -> {"absent", "old"}] :
                /\ f["out_parquet.tmp"] = "absent"
                /\ f["out_ndjson.tmp"] = "absent"
                /\ \A d, e \in Destinations : f[d] = f[e] }

(***************************************************************************)
(* scripts/consolidate_data.py                                             *)
(***************************************************************************)

NoFile    == [kind |-> "none"]
Malformed == [kind |-> "malformed"]

\* the offsets that name the capture files, teeradar_page_<offset>.json
PageOffsets == {0, 2, 10}

\* fetched_at as written in an envelope: 0 stands for a string that is no
\* timestamp, NULL for a missing field, a positive number for a time
RawStamps == {NULL, 0, 1, 2}

\* the course entries a payload may list: rating and ratings_count are raw values
\* (0 stands for a string that is no number, NULL for a missing field)
CourseEntries ==
    { [course_id |-> 1, rating |-> 4, ratings_count |-> 7],
      [course_id |-> 1, rating |-> 0, ratings_count |-> NULL],
      [course_id |-> 2, rating |-> 5, ratings_count |-> 0] }

MaxCoursesPerFile == 1

CourseLists == UNION { [1..n -> CourseEntries] : n \in 0..MaxCoursesPerFile }

CaptureFiles ==
    { [kind |-> "capture", fetched_at |-> t, courses |-> cs] :
        t \in RawStamps, cs \in CourseLists }

\* the decimal digits of n, most significant first
RECURSIVE Digits(_)
Digits(n) == IF n < 10 THEN << n >> ELSE Digits(n \div 10) \o << n % 10 >>

\* a < b for the strings of digits a and b, as Python compares strings; the
\* character after the offset in a file name is ".", which is below every digit,
\* so the name of a shorter offset that is a prefix comes first
RECURSIVE LexLess(_, _)
LexLess(a, b) ==
    IF a = << >> THEN b # << >>
    ELSE IF b = << >> THEN FALSE
    ELSE IF Head(a) # Head(b) THEN Head(a) < Head(b)
    ELSE LexLess(Tail(a), Tail(b))

\* sorted(glob.glob(".../teeradar_page_*.json")): the offsets of the files found,
\* in the lexicographic order of their names
RECURSIVE SortedFiles(_)
SortedFiles(S) ==
    IF S = {} THEN << >>
    ELSE LET m == CHOOSE x \in S : \A y \in S \ {x} : LexLess(Digits(x), Digits(y))
         IN  << m >> \o SortedFiles(S \ {m})

FilesFound(dir) == SortedFiles({ o \in PageOffsets : dir[o] # NoFile })

\* read_raw_courses: the course entries of every file in file order, each with
\* the provenance of its file
read_raw_courses(dir) ==
    LET files == FilesFound(dir)
        rowsOf(o) == [ i \in 1..Len(dir[o].courses) |->
                         [course_id     |-> dir[o].courses[i].course_id,
                          rating        |-> dir[o].courses[i].rating,
                          ratings_count |-> dir[o].courses[i].ratings_count,
                          _fetched_at   |-> dir[o].fetched_at,
                          _offset       |-> o,
                          _raw_file     |-> o] ]
    IN  FlattenSeq([ k \in 1..Len(files) |-> rowsOf(files[k]) ])

\* pd.to_numeric(x, errors="coerce"): a number stays, anything else is missing
ToNumeric(x) == IF x > 0 THEN x ELSE NULL

\* pd.to_datetime(x, errors="coerce"): a timestamp stays, anything else is NaT
ToDatetime(x) == IF x > 0 THEN x ELSE NULL

\* main, "Normalize numeric fields"
NormalizeNumeric(rows) ==
    [ i \in 1..Len(rows) |->
        [rows[i] EXCEPT !.rating = ToNumeric(@),
                        !.ratings_count = IF ToNumeric(@) = NULL THEN 0 ELSE ToNumeric(@)] ]

\* the columns of pd.DataFrame(rows)
ConsolidateColumns == { "course_id", "rating", "ratings_count",
                        "_fetched_at", "_offset", "_raw_file" }

DedupeKeys == { "course_id", "slug" }

\* main, "Deduplication": the tables the deduplication may produce
Deduplicate(rows, key) ==
    IF key \in ConsolidateColumns
    THEN LET parsed == [ i \in 1..Len(rows) |->
                          [rows[i] EXCEPT !._fetched_at = ToDatetime(@)] ]
         IN  { DropDuplicatesLast(Take(parsed, p), key) : p \in SortOrders(parsed, key) }
    ELSE { rows }

\* the outputs in the order main writes them, and where each writer starts
OutputOrder == << "out_parquet", "out_ndjson", "sqlite_db" >>
WriterEntry == [out_parquet |-> "parquet_tmp", out_ndjson |-> "ndjson_open",
                sqlite_db |-> "sqlite_connect"]

\* main, "Outputs": the writer that runs after the k-th output (k = 0: the first)
NextOutput(k) ==
    LET later == { j \in (k + 1)..Len(OutputOrder) : OutputOrder[j] \in requested }
    IN  IF later = {} THEN "done"
        ELSE WriterEntry[OutputOrder[CHOOSE j \in later : \A i \in later : j <= i]]

\* main up to the outputs: read the raw pages, normalize, deduplicate
ConsolidateRead ==
    /\ cpc = "start"
    /\ IF \E o \in PageOffsets : rawDir[o] = Malformed
       THEN \* json.load raises
            /\ cpc' = "failed"
            /\ df' = df
       ELSE LET rows == read_raw_courses(rawDir)
            IN  IF rows = << >>
                THEN \* "No data to process. Exiting."
                     /\ cpc' = "done"
                     /\ df' = df
                ELSE /\ df' \in Deduplicate(NormalizeNumeric(rows), dedupeKey)
                     /\ cpc' = NextOutput(0)
    /\ UNCHANGED << rawDir, dedupeKey, requested, fs, metricsVars, fetchVars >>

\* to_parquet_atomic: makedirs and NamedTemporaryFile(delete=False, dir=...)
ParquetCreateTmp ==
    /\ cpc = "parquet_tmp"
    /\ \/ /\ fs' = [fs EXCEPT !["out_parquet.tmp"] = "partial"]
          /\ cpc' = "parquet_write"
       \/ /\ cpc' = "failed"
          /\ fs' = fs
    /\ UNCHANGED << rawDir, dedupeKey, requested, df, metricsVars, fetchVars >>

\* to_parquet_atomic: df.to_parquet(tmp_name)
ParquetWrite ==
    /\ cpc = "parquet_write"
    /\ \/ /\ fs' = [fs EXCEPT !["out_parquet.tmp"] = "new"]
          /\ cpc' = "parquet_replace"
       \/ /\ cpc' = "failed"
          /\ fs' = fs
    /\ UNCHANGED << rawDir, dedupeKey, requested, df, metricsVars, fetchVars >>

\* to_parquet_atomic: os.replace(tmp_name, out_path)
ParquetReplace ==
    /\ cpc = "parquet_replace"
    /\ \/ /\ fs' = [fs EXCEPT !["out_parquet"] = fs["out_parquet.tmp"],
                              !["out_parquet.tmp"] = "absent"]
          /\ cpc' = NextOutput(1)
       \/ /\ cpc' = "failed"
          /\ fs' = fs
    /\ UNCHANGED << rawDir, dedupeKey, requested, df, metricsVars, fetchVars >>

\* to_ndjson_atomic: makedirs and open(out_path + ".tmp", "w")
NdjsonOpenTmp ==
    /\ cpc = "ndjson_open"
    /\ \/ /\ fs' = [fs EXCEPT !["out_ndjson.tmp"] = "partial"]
          /\ cpc' = "ndjson_write"
       \/ /\ cpc' = "failed"
          /\ fs' = fs
    /\ UNCHANGED << rawDir, dedupeKey, requested, df, metricsVars, fetchVars >>

\* to_ndjson_atomic: the loop of f.write and the close
NdjsonWrite ==
    /\ cpc = "ndjson_write"
    /\ \/ /\ fs' = [fs EXCEPT !["out_ndjson.tmp"] = "new"]
          /\ cpc' = "ndjson_replace"
       \/ /\ cpc' = "failed"
          /\ fs' = fs
    /\ UNCHANGED << rawDir, dedupeKey, requested, df, metricsVars, fetchVars >>

\* to_ndjson_atomic: os.replace(tmp, out_path)
NdjsonReplace ==
    /\ cpc = "ndjson_replace"
    /\ \/ /\ fs' = [fs EXCEPT !["out_ndjson"] = fs["out_ndjson.tmp"],
                              !["out_ndjson.tmp"] = "absent"]
          /\ cpc' = NextOutput(2)
       \/ /\ cpc' = "failed"
          /\ fs' = fs
    /\ UNCHANGED << rawDir, dedupeKey, requested, df, metricsVars, fetchVars >>

\* to_sqlite_replace: makedirs and sqlite3.connect(db_path), which creates an
\* empty database file when there is none
SqliteConnect ==
    /\ cpc = "sqlite_connect"
    /\ \/ /\ fs' = [fs EXCEPT !["sqlite_db"] = IF @ = "absent" THEN "partial" ELSE @]
          /\ cpc' = "sqlite_to_sql"
       \/ /\ cpc' = "failed"
          /\ fs' = fs
    /\ UNCHANGED << rawDir, dedupeKey, requested, df, metricsVars, fetchVars >>

\* to_sqlite_replace: df.to_sql(table_name, conn, if_exists="replace"), in the
\* database file itself: the table is dropped, created and filled
SqliteToSql ==
    /\ cpc = "sqlite_to_sql"
    /\ \/ /\ fs' = [fs EXCEPT !["sqlite_db"] = "new"]
          /\ cpc' = "sqlite_index"
       \/ /\ fs' = [fs EXCEPT !["sqlite_db"] = "partial"]
          /\ cpc' = "failed"
    /\ UNCHANGED << rawDir, dedupeKey, requested, df, metricsVars, fetchVars >>

\* to_sqlite_replace: CREATE INDEX inside try/except (a failure only warns), close
SqliteIndex ==
    /\ cpc = "sqlite_index"
    /\ cpc' = NextOutput(3)
    /\ UNCHANGED << rawDir, dedupeKey, requested, df, fs, metricsVars, fetchVars >>

InitConsolidate ==
    /\ rawDir \in [PageOffsets -> {NoFile, Malformed} \cup CaptureFiles]
    /\ dedupeKey \in DedupeKeys
    /\ requested \in SUBSET { "out_parquet", "out_ndjson", "sqlite_db" }
    /\ df = << >>
    /\ cpc = "start"
    /\ fs \in FsBefore
    \* the other scripts do not run
    /\ courses = << >>
    /\ columns = {}
    /\ weights = NoWeights
    /\ reference = NoReference
    /\ agg = << >>
    /\ mpc = "idle"
    /\ start = 0
    /\ limit = 1
    /\ max_pages = 1
    /\ backoff = 0
    /\ offset = 0
    /\ page = 0
    /\ saved = << >>
    /\ fpc = "idle"

NextConsolidate ==
    \/ ConsolidateRead
    \/ ParquetCreateTmp \/ ParquetWrite \/ ParquetReplace
    \/ NdjsonOpenTmp \/ NdjsonWrite \/ NdjsonReplace
    \/ SqliteConnect \/ SqliteToSql \/ SqliteIndex

(***************************************************************************)
(* scripts/fetch_teeradar.py                                               *)
(***************************************************************************)

\* the largest --max-pages tried
MaxPages == 3

\* --offset and --limit tried, and the "count" a page may report
StartOffsets == {0, 5}
Limits       == {0, 1, 2}
Counts       == 0..2

\* the sleeps before a retry: a request that raised, a 429, a 5xx
Backoffs == {5, 60, 10}

\* fetch_pages: requests.get raises, or answers 429 or 5xx: sleep, then retry
RequestFails ==
    /\ fpc = "request"
    /\ backoff' \in Backoffs
    /\ fpc' = "sleep"
    /\ UNCHANGED << start, limit, max_pages, offset, page, saved,
                    fs, consolidateVars, metricsVars >>

\* fetch_pages: the time.sleep of a retry ends, "continue"
Wake ==
    /\ fpc = "sleep"
    /\ fpc' = "request"
    /\ UNCHANGED << start, limit, max_pages, backoff, offset, page, saved,
                    fs, consolidateVars, metricsVars >>

\* fetch_pages: any other 4xx answer, resp.raise_for_status() raises
RequestRejected ==
    /\ fpc = "request"
    /\ fpc' = "raised"
    /\ UNCHANGED << start, limit, max_pages, backoff, offset, page, saved,
                    fs, consolidateVars, metricsVars >>

\* a stop test that lets one page too many through
StopsOnePageLate(p) == max_pages # 0 /\ p > max_pages

\* fetch_pages' stop test after a page was counted
Stops(p) == max_pages # 0 /\ p >= max_pages

\* fetch_pages: a 2xx answer. save_raw_response writes teeradar_page_<offset>.json;
\* then the loop stops on a short page or at max_pages, or moves to the next page
RequestSucceeds ==
    /\ fpc = "request"
    /\ \E count \in Counts :
         /\ saved' = Append(saved, offset)
         /\ IF count < limit
            THEN /\ fpc' = "done"
                 /\ UNCHANGED << offset, page >>
            ELSE /\ offset' = offset + limit
                 /\ page' = page + 1
                 /\ fpc' = IF Stops(page + 1) THEN "done" ELSE "request"
    /\ UNCHANGED << start, limit, max_pages, backoff,
                    fs, consolidateVars, metricsVars >>

InitFetch ==
    /\ start \in StartOffsets
    /\ limit \in Limits
    /\ max_pages \in 1..MaxPages
    /\ backoff = 0
    /\ offset = start
    /\ page = 0
    /\ saved = << >>
    /\ fpc = "request"
    \* the other scripts do not run
    /\ fs = [p \in Paths |-> "absent"]
    /\ rawDir = [o \in PageOffsets |-> NoFile]
    /\ dedupeKey = "course_id"
    /\ requested = {}
    /\ df = << >>
    /\ cpc = "idle"
    /\ courses = << >>
    /\ columns = {}
    /\ weights = NoWeights
    /\ reference = NoReference
    /\ agg = << >>
    /\ mpc = "idle"

NextFetch == RequestFails \/ Wake \/ RequestRejected \/ RequestSucceeds

(***************************************************************************)
(* eda/compute_city_metrics.py: compute_metrics                            *)
(***************************************************************************)

\* the largest number of course records in the input table
MaxRows == 3

RECURSIVE Gcd(_, _)
Gcd(a, b) == IF b = 0 THEN a ELSE Gcd(b, a % b)

RECURSIVE LcmUpTo(_)
LcmUpTo(n) == IF n <= 1 THEN 1 ELSE (LcmUpTo(n - 1) * n) \div Gcd(LcmUpTo(n - 1), n)

\* A mean or a median of up to MaxRows integers is held exactly as Scale times
\* its value (pandas holds it as a float)
Scale == LcmUpTo(MaxRows + 1)

\* the sum of f over the finite set S of its domain
RECURSIVE SumFn(_, _)
SumFn(f, S) == IF S = {} THEN 0
               ELSE LET x == CHOOSE y \in S : TRUE IN f[x] + SumFn(f, S \ {x})

\* the values f takes on S, ascending, each as often as it is taken
RECURSIVE SortedValues(_, _)
SortedValues(f, S) ==
    IF S = {} THEN << >>
    ELSE LET x == CHOOSE y \in S : \A z \in S : f[y] <= f[z]
         IN  << f[x] >> \o SortedValues(f, S \ {x})

\* the rows (positions) of a group that hold a value in the column
Present(rows, I, col) == { i \in I : rows[i][col] # NULL }

ColumnOf(rows, col) == [ i \in 1..Len(rows) |-> rows[i][col] ]

\* groupby(...).agg((col, "nunique")): the distinct values, missing ones not counted
NUnique(rows, I, col) == Cardinality({ rows[i][col] : i \in Present(rows, I, col) })

\* groupby(...).agg((col, "sum")): missing values are skipped
Sum(rows, I, col) == SumFn(ColumnOf(rows, col), Present(rows, I, col))

\* groupby(...).agg((col, "mean")), times Scale: NaN when the group has no value
Mean(rows, I, col) ==
    LET P == Present(rows, I, col)
    IN  IF P = {} THEN NULL
        ELSE (SumFn(ColumnOf(rows, col), P) * Scale) \div Cardinality(P)

\* groupby(...).agg((col, "median")), times Scale: NaN when the group has no value
Median(rows, I, col) ==
    LET P == Present(rows, I, col)
        v == SortedValues(ColumnOf(rows, col), P)
        n == Len(v)
    IN  IF n = 0 THEN NULL
        ELSE IF n % 2 = 1 THEN v[(n + 1) \div 2] * Scale
        ELSE ((v[n \div 2] + v[n \div 2 + 1]) * Scale) \div 2

\* compute_metrics, "drop duplicates by course_id if present": the tables
\* sort_values("_fetched_at").drop_duplicates(subset="course_id", keep="last")
\* may produce
DropDuplicateCourses(rows, cols) ==
    IF "course_id" \in cols
    THEN { DropDuplicatesLast(Take(rows, p), "course_id") :
             p \in SortOrders(rows, "_fetched_at") }
    ELSE { rows }

\* compute_metrics, group_cols
GroupCols(cols) == { c \in {"city", "state"} : c \in cols }

\* the group key of a course record: its city and its state (0 for a column that
\* is not grouped by)
GroupKey(r, cols) == << IF "city" \in cols THEN r.city ELSE 0,
                        IF "state" \in cols THEN r.state ELSE 0 >>

KeyLess(a, b) == a[1] < b[1] \/ (a[1] = b[1] /\ a[2] < b[2])

\* the group keys in groupby's order (sort=True)
RECURSIVE SortedKeys(_)
SortedKeys(S) ==
    IF S = {} THEN << >>
    ELSE LET m == CHOOSE x \in S : \A y \in S \ {x} : KeyLess(x, y)
         IN  << m >> \o SortedKeys(S \ {m})

\* the column num_golf_courses counts
IdentityColumn(cols) == IF "course_id" \in cols THEN "course_id" ELSE "name"

\* courses_df.groupby(group_cols).agg(**agg_dict).reset_index(): one row per group
\* key, records with a missing key left out (dropna=True); a metric whose source
\* column is not in the table is not a column of the result (held as NoColumn)
NoColumn == -2

Aggregate(rows, cols) ==
    LET kept == { i \in 1..Len(rows) :
                    /\ "city" \in cols => rows[i].city # NULL
                    /\ "state" \in cols => rows[i].state # NULL }
        keys == SortedKeys({ GroupKey(rows[i], cols) : i \in kept })
        grp(k) == { i \in kept : GroupKey(rows[i], cols) = k }
    IN  [ g \in 1..Len(keys) |->
          LET I == grp(keys[g])
          IN  [city  |-> IF "city" \in cols THEN keys[g][1] ELSE NoColumn,
               state |-> IF "state" \in cols THEN keys[g][2] ELSE NoColumn,
               num_golf_courses  |-> NUnique(rows, I, IdentityColumn(cols)),
               avg_rating        |-> IF "rating" \in cols
                                     THEN Mean(rows, I, "rating") ELSE NoColumn,
               sum_ratings_count |-> IF "ratings_count" \in cols
                                     THEN Sum(rows, I, "ratings_count") ELSE NoColumn,
               median_tee_fee    |-> IF "tee_fee" \in cols
                                     THEN Median(rows, I, "tee_fee") ELSE NoColumn,
               avg_length_yards  |-> IF "length_yards" \in cols
                                     THEN Mean(rows, I, "length_yards") ELSE NoColumn,
               state_golfable    |-> NoColumn] ]

\* str.lower() of the headers the reference tables carry
Lower == [ h \in { "State", "STATE_NAME", "region",
                   "Golfable_Year_Round", "golfable", "notes" } |->
           CASE h = "State" -> "state"
             [] h = "STATE_NAME" -> "state_name"
             [] h = "Golfable_Year_Round" -> "golfable_year_round"
             [] OTHER -> h ]

\* the columns of the reference after rename(columns=rename_map): a header whose
\* lower case is state, state_name or golfable_year_round takes that name, and
\* golfable becomes golfable_year_round
ReferenceColumns(ref) ==
    { IF Lower[h] = "golfable" THEN "golfable_year_round"
      ELSE IF Lower[h] \in {"state", "state_name", "golfable_year_round"} THEN Lower[h]
      ELSE h : h \in {ref.key_header, ref.flag_header} }

\* agg.merge(states[[key, "golfable_year_round"]], ..., how="left"): every aggregate
\* row in order, once per reference row with its state (in the reference's order),
\* and once with a missing flag when there is none
LeftMerge(rows, ref) ==
    LET matches(r) == Ascending({ k \in 1..Len(ref.rows) : ref.rows[k].key = r.state })
        joined(r)  == IF matches(r) = << >>
                      THEN << [r EXCEPT !.state_golfable = NULL] >>
                      ELSE [ k \in 1..Len(matches(r)) |->
                               [r EXCEPT !.state_golfable = ref.rows[matches(r)[k]].flag] ]
    IN  FlattenSeq([ i \in 1..Len(rows) |-> joined(rows[i]) ])

\* whether the enrichment stage runs its body at all
EnrichmentRuns(ref) ==
    ref # NoReference /\ "golfable_year_round" \in ReferenceColumns(ref)

\* whether one of the two merges is taken
Merges(cols, ref) ==
    "state" \in cols /\ ReferenceColumns(ref) \cap {"state", "state_name"} # {}

\* compute_metrics, "If a state golfability CSV is provided": the aggregate after
\* the stage; without a merge agg['golfable_year_round'] raises KeyError
EnrichRaises(cols, ref) == EnrichmentRuns(ref) /\ ~Merges(cols, ref)

Enrich(rows, cols, ref) ==
    IF EnrichmentRuns(ref)
    THEN LET m == LeftMerge(rows, ref)
         IN  [ i \in 1..Len(m) |->
                 [m[i] EXCEPT !.state_golfable = IF @ = NULL THEN 0 ELSE @] ]
    ELSE rows

\* the columns of the aggregate that take part in the score, in the order of
\* compute_metrics' score_cols
MetricOrder == << "avg_rating", "median_tee_fee", "num_golf_courses",
                  "sum_ratings_count", "avg_length_yards", "state_golfable" >>

SourceColumn == [avg_rating |-> "rating", median_tee_fee |-> "tee_fee",
                 sum_ratings_count |-> "ratings_count",
                 avg_length_yards |-> "length_yards"]

InAggregate(c, cols, ref) ==
    CASE c = "num_golf_courses" -> TRUE
      [] c = "state_golfable"   -> EnrichmentRuns(ref)
      [] OTHER                  -> SourceColumn[c] \in cols

ScoreCols(cols, ref) ==
    LET present(c) == InAggregate(c, cols, ref)
    IN  SelectSeq(MetricOrder, present)

\* metrics where lower is better
InvertCols == { "median_tee_fee" }

\* default_weights, in hundredths
DefaultWeights == [avg_rating |-> 35, num_golf_courses |-> 25, median_tee_fee |-> 20,
                   sum_ratings_count |-> 10, avg_length_yards |-> 0,
                   state_golfable |-> 10]

\* "if weights is None: weights = default_weights", then "keep only available
\* weights": the weight of a score column, 0 for one the mapping does not name
\* (weights.get(c, 0))
WeightOf(w, c) ==
    LET given == IF w = NoWeights THEN DefaultWeights ELSE w.of
    IN  IF c \in DOMAIN given THEN given[c] ELSE 0

\* total_weight = sum(weights.values()) or 1.0
TotalWeight(w, sc) ==
    LET t == SumSeq([ k \in 1..Len(sc) |-> WeightOf(w, sc[k]) ])
    IN  IF t = 0 THEN 1 ELSE t

Max(S) == CHOOSE x \in S : \A y \in S : y <= x
Min(S) == CHOOSE x \in S : \A y \in S : x <= y

\* one column of the matrix, inverted when lower is better:
\* matrix[col] = matrix[col].max() - matrix[col] (max skips NaN, NaN stays NaN)
MatrixColumn(rows, c) ==
    LET x   == [ i \in 1..Len(rows) |-> rows[i][c] ]
        has == { i \in 1..Len(rows) : x[i] # NULL }
    IN  IF c \in InvertCols /\ has # {}
        THEN LET mx == Max({ x[i] : i \in has })
             IN  [ i \in 1..Len(rows) |-> IF x[i] = NULL THEN NULL ELSE mx - x[i] ]
        ELSE x

\* matrix.fillna(matrix.mean()) for one column, every value times the number k of
\* values present so that the mean is an integer; a column with no value at all
\* has a NaN mean and stays NaN
FillMean(x) ==
    LET has == { i \in DOMAIN x : x[i] # NULL }
        k   == Cardinality(has)
    IN  [ i \in DOMAIN x |-> IF k = 0 THEN NULL
                             ELSE IF x[i] = NULL THEN SumFn(x, has) ELSE x[i] * k ]

\* the greatest common divisor of a finite set of naturals
RECURSIVE GcdSet(_)
GcdSet(S) == IF S = {} THEN 0
             ELSE LET x == CHOOSE y \in S : TRUE IN Gcd(x, GcdSet(S \ {x}))

\* MinMaxScaler().fit_transform for one column: (x - min) / (max - min) as the
\* pair num/den in lowest terms; a constant column scales to 0 (sklearn replaces a zero range by
\* 1); NaN is passed through, so a column of NaN scales to NaN, held as den = 0
MinMaxScale(x) ==
    LET nan == \E i \in DOMAIN x : x[i] = NULL
        lo  == Min({ x[i] : i \in DOMAIN x })
        hi  == Max({ x[i] : i \in DOMAIN x })
        g   == GcdSet({ x[i] - lo : i \in DOMAIN x })
    IN  IF nan THEN [num |-> [ i \in DOMAIN x |-> 0 ], den |-> 0]
        ELSE IF hi = lo THEN [num |-> [ i \in DOMAIN x |-> 0 ], den |-> 1]
        ELSE [num |-> [ i \in DOMAIN x |-> (x[i] - lo) \div g ],
              den |-> (hi - lo) \div g]

\* the least common multiple of a sequence of naturals (0 when one of them is 0)
RECURSIVE LcmSeq(_)
LcmSeq(s) == IF s = << >> THEN 1
             ELSE IF Head(s) = 0 \/ LcmSeq(Tail(s)) = 0 THEN 0
             ELSE (Head(s) * LcmSeq(Tail(s))) \div Gcd(Head(s), LcmSeq(Tail(s)))

\* the weighted score of every row, as a fraction num/den with one denominator
\* for all rows: the sum over the score columns of scaled * (weight / total).
\* A NaN in any scaled column makes the sum NaN (NaN * 0 is NaN), held as den = 0
Scores(rows, cols, ref, w) ==
    LET sc     == ScoreCols(cols, ref)
        scaled == [ k \in 1..Len(sc) |-> MinMaxScale(FillMean(MatrixColumn(rows, sc[k]))) ]
        dens   == [ k \in 1..Len(sc) |-> scaled[k].den ]
        common == LcmSeq(dens)
        den    == TotalWeight(w, sc) * common
    IN  [ i \in 1..Len(rows) |->
            IF den = 0 THEN [num |-> 0, den |-> 0]
            ELSE [num |-> SumSeq([ k \in 1..Len(sc) |->
                                    WeightOf(w, sc[k]) * scaled[k].num[i] * (common \div dens[k]) ]),
                  den |-> den] ]

IsNaN(score) == score.den = 0

\* agg.sort_values("score", ascending=False), default kind="quicksort": the row
\* orders with the scores non-increasing and NaN last, in their original order
\* (pandas sorts only the scores present); the order among equal scores is not
\* fixed
RankOrders(scores) ==
    LET n == Len(scores)
        before(a, b) == IF IsNaN(scores[b]) THEN ~IsNaN(scores[a]) \/ a < b
                        ELSE /\ ~IsNaN(scores[a])
                             /\ scores[a].num * scores[b].den >= scores[b].num * scores[a].den
    IN  { p \in Perms(n) : \A i, j \in 1..n : i < j => before(p[i], p[j]) }

\* Series.round(digits) of a value held as Scale times itself, in units of
\* 10^-digits (unit = 10^digits), halves to the even neighbour; NaN stays NaN
Round(v, unit) ==
    LET q == (v * unit) \div Scale
        r == (v * unit) % Scale
    IN  IF v = NULL \/ v = NoColumn THEN v
        ELSE IF 2 * r < Scale THEN q
        ELSE IF 2 * r > Scale THEN q + 1
        ELSE IF q % 2 = 0 THEN q ELSE q + 1

Raised == [raised |-> TRUE, table |-> << >>]

\* compute_metrics from the aggregate on: enrichment, score, sort, rank, rounding.
\* The tables it may return (the sort fixes no order among equal scores), or
\* Raised when it raises
ScoreAndRank(a, cols, ref, w) ==
    IF EnrichRaises(cols, ref) THEN { Raised }
    ELSE LET e  == Enrich(a, cols, ref)
             sv == Scores(e, cols, ref, w)
         IN  IF e = << >>
             THEN \* MinMaxScaler.fit_transform refuses a matrix with no row
                  { Raised }
             ELSE { [raised |-> FALSE,
                     table  |-> [ k \in 1..Len(e) |->
                        [city              |-> e[p[k]].city,
                         state             |-> e[p[k]].state,
                         num_golf_courses  |-> e[p[k]].num_golf_courses,
                         avg_rating        |-> Round(e[p[k]].avg_rating, 100),
                         sum_ratings_count |-> e[p[k]].sum_ratings_count,
                         median_tee_fee    |-> Round(e[p[k]].median_tee_fee, 100),
                         avg_length_yards  |-> Round(e[p[k]].avg_length_yards, 10),
                         state_golfable    |-> IF EnrichmentRuns(ref)
                                               THEN e[p[k]].state_golfable ELSE NoColumn,
                         score             |-> sv[p[k]],
                         rank              |-> k] ]] : p \in RankOrders(sv) }

\* compute_metrics(courses_df, weights, state_golfable_csv): what it may return
compute_metrics(rows, cols, w, ref) ==
    IF \/ "course_id" \in cols /\ "_fetched_at" \notin cols   \* sort_values: KeyError
       \/ GroupCols(cols) = {}                                \* ValueError
       \/ IdentityColumn(cols) \notin cols                    \* agg: KeyError
    THEN { Raised }
    ELSE UNION { ScoreAndRank(Aggregate(d, cols), cols, ref, w) :
                   d \in DropDuplicateCourses(rows, cols) }

\* main: read_parquet and compute_metrics
ComputeMetrics ==
    /\ mpc = "start"
    /\ \E out \in compute_metrics(courses, columns, weights, reference) :
         IF out.raised
         THEN /\ mpc' = "raised"
              /\ agg' = agg
         ELSE /\ mpc' = "parquet_open"
              /\ agg' = out.table
    /\ UNCHANGED << courses, columns, weights, reference, fs,
                    consolidateVars, fetchVars >>

\* main: makedirs and metrics.to_parquet(args.output), which opens the
\* destination itself for writing
MetricsParquetOpen ==
    /\ mpc = "parquet_open"
    /\ \/ /\ fs' = [fs EXCEPT !["output"] = "partial"]
          /\ mpc' = "parquet_write"
       \/ /\ mpc' = "failed"
          /\ fs' = fs
    /\ UNCHANGED << courses, columns, weights, reference, agg,
                    consolidateVars, fetchVars >>

\* main: to_parquet writes the table and closes the file
MetricsParquetWrite ==
    /\ mpc = "parquet_write"
    /\ \/ /\ fs' = [fs EXCEPT !["output"] = "new"]
          /\ mpc' = "csv_open"
       \/ /\ mpc' = "failed"
          /\ fs' = fs
    /\ UNCHANGED << courses, columns, weights, reference, agg,
                    consolidateVars, fetchVars >>

\* main: makedirs and metrics.to_csv(args.csv_out), which opens the destination
\* itself for writing
MetricsCsvOpen ==
    /\ mpc = "csv_open"
    /\ \/ /\ fs' = [fs EXCEPT !["csv_out"] = "partial"]
          /\ mpc' = "csv_write"
       \/ /\ mpc' = "failed"
          /\ fs' = fs
    /\ UNCHANGED << courses, columns, weights, reference, agg,
                    consolidateVars, fetchVars >>

\* main: to_csv writes the rows and closes the file
MetricsCsvWrite ==
    /\ mpc = "csv_write"
    /\ \/ /\ fs' = [fs EXCEPT !["csv_out"] = "new"]
          /\ mpc' = "done"
       \/ /\ mpc' = "failed"
          /\ fs' = fs
    /\ UNCHANGED << courses, columns, weights, reference, agg,
                    consolidateVars, fetchVars >>

\* the course records the input tables are made of
CourseRecords ==
    { [course_id |-> 1, name |-> 1, city |-> 1, state |-> 1, rating |-> 3,
       ratings_count |-> 4, tee_fee |-> 2, length_yards |-> 6, _fetched_at |-> 1],
      [course_id |-> 1, name |-> 1, city |-> 2, state |-> 1, rating |-> 5,
       ratings_count |-> 6, tee_fee |-> NULL, length_yards |-> 6, _fetched_at |-> 2],
      [course_id |-> 2, name |-> 2, city |-> 1, state |-> 1, rating |-> NULL,
       ratings_count |-> 0, tee_fee |-> 4, length_yards |-> NULL, _fetched_at |-> 1],
      [course_id |-> 3, name |-> 3, city |-> 2, state |-> 2, rating |-> 3,
       ratings_count |-> 4, tee_fee |-> 2, length_yards |-> 6, _fetched_at |-> NULL],
      [course_id |-> 4, name |-> 4, city |-> NULL, state |-> 2, rating |-> 4,
       ratings_count |-> 2, tee_fee |-> 3, length_yards |-> 7, _fetched_at |-> 1],
      [course_id |-> 5, name |-> 5, city |-> 3, state |-> 2, rating |-> NULL,
       ratings_count |-> 0, tee_fee |-> NULL, length_yards |-> NULL, _fetched_at |-> 2] }

CourseTables == UNION { [1..n -> CourseRecords] : n \in 1..MaxRows }

AllColumns == { "course_id", "name", "city", "state", "rating", "ratings_count",
                "tee_fee", "length_yards", "_fetched_at" }

\* the column sets of the input tables tried
Schemas ==
    { AllColumns,
      { "course_id", "city", "state", "rating", "ratings_count", "_fetched_at" },
      { "name", "city", "rating" },
      { "course_id", "rating", "_fetched_at" } }

\* the weights arguments tried: none (the defaults), an empty mapping, and
\* mappings that name some metrics
WeightsTried ==
    { NoWeights,
      [kind |-> "dict", of |-> << >>],
      [kind |-> "dict", of |-> [avg_rating |-> 1, median_tee_fee |-> 3]],
      [kind |-> "dict", of |-> [num_golf_courses |-> 1, state_golfable |-> 1]] }

\* the reference files tried
ReferencesTried ==
    { NoReference,
      [kind |-> "csv", key_header |-> "State", flag_header |-> "Golfable_Year_Round",
       rows |-> << [key |-> 1, flag |-> 1] >>],
      [kind |-> "csv", key_header |-> "State", flag_header |-> "golfable",
       rows |-> << [key |-> 1, flag |-> 1], [key |-> 1, flag |-> 0] >>],
      [kind |-> "csv", key_header |-> "STATE_NAME", flag_header |-> "golfable",
       rows |-> << [key |-> 2, flag |-> 1], [key |-> 1, flag |-> 0] >>],
      [kind |-> "csv", key_header |-> "region", flag_header |-> "golfable",
       rows |-> << [key |-> 1, flag |-> 1] >>],
      [kind |-> "csv", key_header |-> "State", flag_header |-> "notes",
       rows |-> << [key |-> 1, flag |-> 1] >>] }

InitMetrics ==
    /\ courses \in CourseTables
    /\ columns \in Schemas
    /\ weights \in WeightsTried
    /\ reference \in ReferencesTried
    /\ agg = << >>
    /\ mpc = "start"
    /\ fs \in FsBefore
    \* the other scripts do not run
    /\ rawDir = [o \in PageOffsets |-> NoFile]
    /\ dedupeKey = "course_id"
    /\ requested = {}
    /\ df = << >>
    /\ cpc = "idle"
    /\ start = 0
    /\ limit = 1
    /\ max_pages = 1
    /\ backoff = 0
    /\ offset = 0
    /\ page = 0
    /\ saved = << >>
    /\ fpc = "idle"

NextMetrics ==
    \/ ComputeMetrics
    \/ MetricsParquetOpen \/ MetricsParquetWrite
    \/ MetricsCsvOpen \/ MetricsCsvWrite

(***************************************************************************)
(* The specifications                                                      *)
(***************************************************************************)

SpecConsolidate ==
    /\ InitConsolidate
    /\ [][NextConsolidate]_vars

SpecMetrics ==
    /\ InitMetrics
    /\ [][NextMetrics]_vars

\* a request that is retried succeeds at some point, and a sleep ends
SpecFetch ==
    /\ InitFetch
    /\ [][NextFetch]_vars
    /\ WF_vars(Wake)
    /\ SF_vars(RequestSucceeds \/ RequestRejected)

(***************************************************************************)
(* The claims                                                              *)
(***************************************************************************)

\* consolidate_data.main has read and deduplicated the raw pages
Deduplicated == cpc \notin {"idle", "start"} /\ df # << >> /\ dedupeKey = "course_id"

\* the timestamps that parse among the records of the raw pages with this id
ValidStamps(id) ==
    LET rows == read_raw_courses(rawDir)
    IN  { ToDatetime(rows[i]._fetched_at) :
            i \in { j \in 1..Len(rows) : rows[j].course_id = id } } \ {NULL}

\* C1: after the deduplication of consolidate_data.main on course_id, every
\* course_id of the raw pages is carried by exactly one record, and when one of
\* its duplicates has a valid _fetched_at the record kept has the latest valid
\* _fetched_at (so a duplicate with an unparseable or missing timestamp never
\* wins over one with a valid timestamp), whatever the order of the duplicates
\* across the capture files
C1_LatestFetchWins ==
    Deduplicated =>
        LET rows == read_raw_courses(rawDir)
        IN  \A id \in { rows[i].course_id : i \in 1..Len(rows) } :
              /\ Cardinality({ k \in 1..Len(df) : df[k].course_id = id }) = 1
              /\ \A k \in 1..Len(df) :
                    df[k].course_id = id /\ ValidStamps(id) # {}
                        => df[k]._fetched_at = Max(ValidStamps(id))

\* compute_metrics has returned a table
Returned == mpc \notin {"idle", "start", "raised"}

\* a metric is active: a column of the aggregate with a nonzero weight
SomeMetricActive ==
    \E k \in 1..Len(ScoreCols(columns, reference)) :
        WeightOf(weights, ScoreCols(columns, reference)[k]) > 0

\* C2: in every table compute_metrics returns with at least one metric active,
\* every row's score is a number with 0 <= score <= 1
C2_ScoreInUnitInterval ==
    Returned /\ SomeMetricActive =>
        \A k \in 1..Len(agg) :
            /\ ~IsNaN(agg[k].score)
            /\ 0 <= agg[k].score.num
            /\ agg[k].score.num <= agg[k].score.den

\* score(a) >= score(b) as floats compare: false when either is NaN
ScoreGeq(a, b) ==
    /\ ~IsNaN(a) /\ ~IsNaN(b)
    /\ a.num * b.den >= b.num * a.den

\* C3: in every table of N rows compute_metrics returns, the ranks are exactly
\* 1..N, each once, and rank(a) < rank(b) implies score(a) >= score(b)
C3_RankIsDescendingPermutation ==
    Returned =>
        /\ { agg[k].rank : k \in 1..Len(agg) } = 1..Len(agg)
        /\ \A a, b \in 1..Len(agg) :
              /\ a # b => agg[a].rank # agg[b].rank
              /\ agg[a].rank < agg[b].rank => ScoreGeq(agg[a].score, agg[b].score)

RegionKey(r) == << r.city, r.state >>

\* C4: in every table compute_metrics returns, of two regions with equal scores
\* the one that comes first in the grouped aggregate (the smaller group key) has
\* the smaller rank
C4_RankingIsStable ==
    Returned =>
        \A a, b \in 1..Len(agg) :
            /\ ScoreGeq(agg[a].score, agg[b].score)
            /\ ScoreGeq(agg[b].score, agg[a].score)
            /\ KeyLess(RegionKey(agg[a]), RegionKey(agg[b]))
            => agg[a].rank < agg[b].rank

\* the group keys of the aggregate before the join, for the deduplicated tables
\* the run may have aggregated
KeysBeforeJoin ==
    { { GroupKey(d[i], columns) : i \in { j \in 1..Len(d) :
                                            /\ "city" \in columns => d[j].city # NULL
                                            /\ "state" \in columns => d[j].state # NULL } } :
      d \in DropDuplicateCourses(courses, columns) }

\* C5: when the enrichment join has run, the table compute_metrics returns holds
\* the region keys of the aggregate before the join, each exactly once, and a
\* region whose state the reference does not list has state_golfable = 0
C5_JoinKeepsRows ==
    Returned /\ EnrichmentRuns(reference) =>
        /\ \A a, b \in 1..Len(agg) : a # b => RegionKey(agg[a]) # RegionKey(agg[b])
        /\ { << IF "city" \in columns THEN agg[k].city ELSE 0, agg[k].state >> :
               k \in 1..Len(agg) } \in KeysBeforeJoin
        /\ \A k \in 1..Len(agg) :
              (\A j \in 1..Len(reference.rows) : reference.rows[j].key # agg[k].state)
                  => agg[k].state_golfable = 0

\* C6: no destination path ever holds a partially written file: each holds its
\* prior version (or is absent) or the complete new file
C6_AtomicPublication ==
    \A d \in Destinations : fs[d] \in {"absent", "old", "new"}

\* C7: a run of consolidate_data.main that had data either completes with every
\* requested output published, or fails with none of the requested outputs
\* published
C7_AllOrNothing ==
    /\ cpc = "done" /\ df # << >> => \A d \in requested : fs[d] = "new"
    /\ cpc = "failed" => \A d \in requested : fs[d] # "new"

\* a reference that cannot be used: none, or one without a flag column, or one
\* without a state or state_name column
Unusable(ref) ==
    \/ ref = NoReference
    \/ "golfable_year_round" \notin ReferenceColumns(ref)
    \/ ReferenceColumns(ref) \cap {"state", "state_name"} = {}

\* C8: with an unusable reference compute_metrics raises only when it raises
\* without any reference too, and the table it returns has no state_golfable
\* column
C8_UnusableReferenceNeverAborts ==
    Unusable(reference) =>
        /\ mpc = "raised" =>
              compute_metrics(courses, columns, weights, NoReference) = { Raised }
        /\ Returned => \A k \in 1..Len(agg) : agg[k].state_golfable = NoColumn

\* the distinct course_id values of the input table
CourseIds == { courses[i].course_id : i \in 1..Len(courses) } \ {NULL}

\* C9: when the input has a course_id column, the num_golf_courses of the rows
\* compute_metrics returns add up to the number of distinct course_id values of
\* the input
C9_CoursesConserved ==
    Returned /\ "course_id" \in columns =>
        SumSeq([ k \in 1..Len(agg) |-> agg[k].num_golf_courses ])
            = Cardinality(CourseIds)

\* fetch_pages has ended: it returned, or raise_for_status raised
Terminated == fpc \in {"done", "raised"}

\* C10: fetch_pages with max_pages = M >= 1 always has saved at most M capture
\* files, the i-th at offset start + (i-1)*limit; a failed request and the sleep
\* after it leave the files, offset and page as they are; and when every retried
\* request is answered at some point, fetch_pages terminates
C10_FetchTerminatesWithinMaxPages ==
    /\ [](/\ Len(saved) <= max_pages
          /\ \A i \in 1..Len(saved) : saved[i] = start + (i - 1) * limit)
    /\ [][fpc' = "sleep" \/ fpc = "sleep" => UNCHANGED << saved, offset, page >>]_vars
    /\ <>Terminated

\* fetch_pages stopped at max_pages after more than one page, the last of them
\* fetched after a retry
C10_Witness ==
    /\ fpc = "done"
    /\ max_pages >= 2
    /\ Len(saved) = max_pages
    /\ limit > 0
    /\ backoff # 0

====
